---- MODULE Spec2Model ----
(***************************************************************************)
(* The note synthesis service of src/main.py: the AudioSynthesizer         *)
(* (frequency resolution, waveform generation, ADSR envelope, velocity,    *)
(* 16-bit conversion, WAV encoding), the shared SynthConfig, and the       *)
(* FastAPI handlers that call it on one asyncio event loop.                *)
(*                                                                         *)
(* Numbers.  Python floats are modelled as exact rationals <<n, d>> in     *)
(* lowest terms with d > 0; the inputs are chosen away from the points     *)
(* where binary rounding would change an int() result.  Arrays (numpy      *)
(* ndarrays) are sequences: index i of the source is position i + 1.       *)
(***************************************************************************)
EXTENDS Integers, Sequences, FiniteSets

----------------------------------------------------------------------------
(* Rational arithmetic *)

Abs(x) == IF x < 0 THEN -x ELSE x

Min(a, b) == IF a < b THEN a ELSE b

Max(a, b) == IF a > b THEN a ELSE b

RECURSIVE GCD(_, _)
GCD(a, b) == IF b = 0 THEN a ELSE GCD(b, a % b)

\* n/d in lowest terms with a positive denominator (d # 0)
Rat(n, d) ==
    LET g == GCD(Abs(n), Abs(d))
        s == IF d < 0 THEN -1 ELSE 1
    IN  <<s * (n \div g), s * (d \div g)>>

Num(x) == x[1]

Den(x) == x[2]

Zero == <<0, 1>>

One == <<1, 1>>

FromInt(k) == <<k, 1>>

RAdd(x, y) == Rat(Num(x) * Den(y) + Num(y) * Den(x), Den(x) * Den(y))

RSub(x, y) == Rat(Num(x) * Den(y) - Num(y) * Den(x), Den(x) * Den(y))

RMul(x, y) == Rat(Num(x) * Num(y), Den(x) * Den(y))

RLess(x, y) == Num(RSub(x, y)) < 0

RLeq(x, y) == Num(RSub(x, y)) <= 0

RAbs(x) == <<Abs(Num(x)), Den(x)>>

\* floor(n / d) for d > 0 (\div rounds towards minus infinity)
FloorDiv(n, d) == n \div d

Floor(x) == FloorDiv(Num(x), Den(x))

\* Python's int(float): truncation towards zero
Trunc(x) == IF Num(x) >= 0 THEN Num(x) \div Den(x) ELSE -((-Num(x)) \div Den(x))

\* rounding to the nearest integer (halves upwards)
Round(x) == FloorDiv(2 * Num(x) + Den(x), 2 * Den(x))

\* <<q, r>> with a * k = q * m + r and 0 <= r < m, for a, k >= 0 and m > 0,
\* by doubling: no intermediate value exceeds 3 * m
RECURSIVE MulDivMod(_, _, _)
MulDivMod(a, k, m) ==
    IF k = 0 THEN <<0, 0>>
    ELSE LET h == MulDivMod(a, k \div 2, m)
             v == 2 * h[2] + (k % 2) * (a % m)
             w == 2 * h[1] + (k % 2) * (a \div m)
         IN  <<w + (v \div m), v % m>>

\* int(x * k) for an integer k >= 0: truncation towards zero of the product
TruncScaled(x, k) ==
    LET q == MulDivMod(Abs(Num(x)), k, Den(x))[1]
    IN  IF Num(x) >= 0 THEN q ELSE -q

\* round(x * k) for an integer k >= 0 (halves away from zero)
RoundScaled(x, k) ==
    LET qr == MulDivMod(Abs(Num(x)), k, Den(x))
        q  == IF 2 * qr[2] >= Den(x) THEN qr[1] + 1 ELSE qr[1]
    IN  IF Num(x) >= 0 THEN q ELSE -q

RECURSIVE Pow2(_)
Pow2(k) == IF k = 0 THEN 1 ELSE 2 * Pow2(k - 1)

----------------------------------------------------------------------------
(* Data model: SynthConfig, NoteRequest, the pitch table *)

SAMPLE_RATE == 44100

\* SynthConfig(): the field defaults of the pydantic model
DefaultConfig ==
    [attack   |-> Rat(5, 1000),
     decay    |-> Rat(1, 10),
     sustain  |-> Rat(3, 10),
     release  |-> One,
     waveform |-> "sine",
     volume   |-> Rat(1, 2)]

Digits == {"0", "1", "2", "3", "4", "5", "6", "7", "8", "9"}

\* str.isdigit() of one character
IsDigit(ch) == ch \in Digits

\* int() of one decimal digit
DigitValue(ch) ==
    CASE ch = "0" -> 0 [] ch = "1" -> 1 [] ch = "2" -> 2 [] ch = "3" -> 3
      [] ch = "4" -> 4 [] ch = "5" -> 5 [] ch = "6" -> 6 [] ch = "7" -> 7
      [] ch = "8" -> 8 [] ch = "9" -> 9

\* the names NOTE_FREQUENCIES has an entry for
KnownNames ==
    {<<"C">>, <<"C", "#">>, <<"D">>, <<"D", "#">>, <<"E">>, <<"F">>,
     <<"F", "#">>, <<"G">>, <<"G", "#">>, <<"A">>, <<"A", "#">>, <<"B">>}

\* NOTE_FREQUENCIES[name], in Hz
NOTE_FREQUENCIES(name) ==
    CASE name = <<"C">>      -> Rat(26163, 100)
      [] name = <<"C", "#">> -> Rat(27718, 100)
      [] name = <<"D">>      -> Rat(29366, 100)
      [] name = <<"D", "#">> -> Rat(31113, 100)
      [] name = <<"E">>      -> Rat(32963, 100)
      [] name = <<"F">>      -> Rat(34923, 100)
      [] name = <<"F", "#">> -> Rat(36999, 100)
      [] name = <<"G">>      -> Rat(39200, 100)
      [] name = <<"G", "#">> -> Rat(41530, 100)
      [] name = <<"A">>      -> Rat(44000, 100)
      [] name = <<"A", "#">> -> Rat(46616, 100)
      [] name = <<"B">>      -> Rat(49388, 100)

\* NOTE_FREQUENCIES.get(note_name, 440.0)
BaseFrequency(name) ==
    IF name \in KnownNames THEN NOTE_FREQUENCIES(name) ELSE FromInt(440)

\* note[-1]: IndexError on the empty string
LastCharRaises(note) == Len(note) = 0

\* note[:-1] if note[-1].isdigit() else note
NoteName(note) ==
    IF IsDigit(note[Len(note)]) THEN SubSeq(note, 1, Len(note) - 1) ELSE note

\* int(note[-1]) if note[-1].isdigit() else 4
Octave(note) ==
    IF IsDigit(note[Len(note)]) THEN DigitValue(note[Len(note)]) ELSE 4

\* base_freq * (2 ** (octave - 4)), for an octave digit 0..9
Frequency(note) ==
    RMul(BaseFrequency(NoteName(note)), Rat(Pow2(Octave(note)), Pow2(4)))

----------------------------------------------------------------------------
(* generate_waveform *)

\* the product rounded to the nearest integer instead
NumSamplesRounded(duration) == Round(RMul(FromInt(SAMPLE_RATE), duration))

\* int(self.SAMPLE_RATE * duration)
NumSamples(duration) == Trunc(RMul(FromInt(SAMPLE_RATE), duration))

\* np.linspace(start, stop, num)[j], 0 <= j < num
LinspaceAt(start, stop, num, j) ==
    IF num = 1 THEN start
    ELSE LET step == RSub(stop, start)
         IN  Rat(Num(start) * Den(step) * (num - 1) + j * Num(step) * Den(start),
                 Den(start) * Den(step) * (num - 1))

\* np.linspace raises ValueError for a negative number of samples
LinspaceRaises(num) == num < 0

\* The sine is irrational: it is sampled at quarter-cycle resolution, where
\* it is 0, 1, 0, -1.  The quarter 0..3 the phase frequency * t lies in:
QuarterOf(phase) == Floor(RMul(FromInt(4), phase)) % 4

\* np.sin(2 * np.pi * phase) at the start of quarter q
SinQuarter(q) == CASE q = 0 -> Zero [] q = 1 -> One [] q = 2 -> Zero [] q = 3 -> <<-1, 1>>

\* the fractional part of the phase, in [0, 1)
Frac(phase) == RSub(phase, FromInt(Floor(phase)))

\* np.sign(np.sin(2 * np.pi * phase)): the sine is positive in the first half
\* of a cycle, negative in the second and 0 at their ends
SquareAt(phase) ==
    IF Frac(phase) = Zero \/ Frac(phase) = Rat(1, 2) THEN Zero
    ELSE IF RLess(Frac(phase), Rat(1, 2)) THEN One
    ELSE <<-1, 1>>

\* 2 * (p - np.floor(0.5 + p))
Saw(p) == RMul(FromInt(2), RSub(p, FromInt(Floor(RAdd(Rat(1, 2), p)))))

\* one sample of the waveform at a phase; an unknown name falls to the sine
WaveSample(waveform, phase) ==
    CASE waveform = "sine"     -> SinQuarter(QuarterOf(phase))
      [] waveform = "square"   -> SquareAt(phase)
      [] waveform = "sawtooth" -> Saw(phase)
      [] waveform = "triangle" -> RSub(RMul(FromInt(2), RAbs(Saw(phase))), One)
      [] OTHER                 -> SinQuarter(QuarterOf(phase))

\* generate_waveform(frequency, duration, waveform): the exception raised
\* ("none" when it returns) and the array returned
generate_waveform(frequency, duration, waveform) ==
    LET n == NumSamples(duration)
    IN  IF LinspaceRaises(n)
        THEN [exc |-> "ValueError", wave |-> <<>>]
        ELSE [exc  |-> "none",
              wave |-> [k \in 1..n |->
                          WaveSample(waveform,
                              RMul(frequency,
                                   LinspaceAt(Zero, duration, n, k - 1)))]]

----------------------------------------------------------------------------
(* apply_adsr_envelope *)

\* a Python slice bound k on an array of n elements: negative bounds count
\* from the end, and every bound is clipped to 0..n
PyIndex(k, n) == IF k < 0 THEN Max(k + n, 0) ELSE Min(k, n)

\* the number of elements of arr[lo:hi], lo and hi already clipped
SliceLen(lo, hi) == Max(hi - lo, 0)

\* numpy accepts arr[lo:hi] = values when values has the slice's length or
\* exactly one element (broadcast); otherwise it raises ValueError
AssignFits(lo, hi, num) == num = SliceLen(lo, hi) \/ num = 1

\* arr (of n elements) after arr[lo:hi] = np.linspace(start, stop, num),
\* when it fits
SetSlice(arr, n, lo, hi, start, stop, num) ==
    [k \in 1..n |->
        IF lo < k /\ k <= hi
        THEN LinspaceAt(start, stop, num, IF num = 1 THEN 0 ELSE k - 1 - lo)
        ELSE arr[k]]

\* arr (of n elements) after arr[lo:hi] = v for a scalar v
FillSlice(arr, n, lo, hi, v) ==
    [k \in 1..n |-> IF lo < k /\ k <= hi THEN v ELSE arr[k]]

\* an envelope that starts silent instead
Zeros(total) == [k \in 1..total |-> Zero]

\* np.ones(total)
Ones(total) == [k \in 1..total |-> One]

\* int(self.config.<field> * self.SAMPLE_RATE)
SegmentSamples(seconds) == Trunc(RMul(seconds, FromInt(SAMPLE_RATE)))

\* envelope[:attack_samples] = np.linspace(0, 1, attack_samples)
AttackRaises(total, a) == a > 0 /\ ~AssignFits(0, PyIndex(a, total), a)

AttackWrite(env, total, a) ==
    IF a > 0
    THEN SetSlice(env, total, 0, PyIndex(a, total), Zero, One, a)
    ELSE env

\* envelope[attack_samples:decay_end] = np.linspace(1, sustain, decay_samples)
DecayRaises(total, a, d) ==
    /\ d > 0 /\ a + d < total
    /\ ~AssignFits(PyIndex(a, total), PyIndex(a + d, total), d)

DecayWrite(env, total, a, d, sustain) ==
    IF d > 0 /\ a + d < total
    THEN SetSlice(env, total, PyIndex(a, total), PyIndex(a + d, total),
                  One, sustain, d)
    ELSE env

\* envelope[sustain_start:sustain_end] = sustain: a scalar always fits
SustainWrite(env, total, a, d, r, sustain) ==
    IF a + d < total - r
    THEN FillSlice(env, total, PyIndex(a + d, total), PyIndex(total - r, total),
                   sustain)
    ELSE env

\* envelope[-release_samples:] = np.linspace(sustain, 0, release_samples)
ReleaseRaises(total, r) == r > 0 /\ ~AssignFits(PyIndex(-r, total), total, r)

ReleaseWrite(env, total, r, sustain) ==
    IF r > 0
    THEN SetSlice(env, total, PyIndex(-r, total), total, sustain, Zero, r)
    ELSE env

\* one of the three array assignments raises ValueError
EnvelopeRaises(total, cfg) ==
    \/ AttackRaises(total, SegmentSamples(cfg.attack))
    \/ DecayRaises(total, SegmentSamples(cfg.attack), SegmentSamples(cfg.decay))
    \/ ReleaseRaises(total, SegmentSamples(cfg.release))

\* the envelope array after the four writes, in the source's order
Envelope(total, cfg) ==
    LET a == SegmentSamples(cfg.attack)
        d == SegmentSamples(cfg.decay)
        r == SegmentSamples(cfg.release)
    IN  ReleaseWrite(
            SustainWrite(
                DecayWrite(AttackWrite(Ones(total), total, a),
                           total, a, d, cfg.sustain),
                total, a, d, r, cfg.sustain),
            total, r, cfg.sustain)

\* return wave * envelope * self.config.volume
apply_adsr_envelope(wave, envelope, volume) ==
    [k \in 1..Len(wave) |-> RMul(RMul(wave[k], envelope[k]), volume)]

----------------------------------------------------------------------------
(* velocity and conversion to 16-bit PCM *)

INT16_MIN == -32768

INT16_MAX == 32767

\* the factor of wave * 32767
PCM_SCALE == 32767

\* wave * velocity
ApplyVelocity(wave, velocity) == [k \in 1..Len(wave) |-> RMul(wave[k], velocity)]

InInt16(t) == INT16_MIN <= t /\ t <= INT16_MAX

\* two's-complement narrowing to 16 bits
Wrap16(t) == ((t - INT16_MIN) % 65536) + INT16_MIN

Saturate16(t) == IF t < INT16_MIN THEN INT16_MIN ELSE IF t > INT16_MAX THEN INT16_MAX ELSE t

\* What a float64 -> int16 cast of an out-of-range value (undefined in C) may
\* give: the builds narrow the truncated integer, or saturate it.
CastModes == {"wrap", "saturate"}

\* np.int16(x * 32767) of one sample x: truncation towards zero; out of
\* range by the build's cast
ToInt16(x, mode) ==
    LET t == TruncScaled(x, PCM_SCALE)
    IN  IF InInt16(t) THEN t
        ELSE IF mode = "wrap" THEN Wrap16(t) ELSE Saturate16(t)

\* np.int16(wave * 32767)
Quantize(wave, mode) == [k \in 1..Len(wave) |-> ToInt16(wave[k], mode)]

----------------------------------------------------------------------------
(* WAV encoding *)

\* What the name `wave` denotes at `wave.open(...)`: synthesize_note assigns
\* to `wave`, which makes the name local to the function, so it is the
\* ndarray of the preceding lines and not the module imported at the top.
WaveNameAtEncode == "ndarray"

\* only the wave module has an attribute `open`
HasOpen(object) == object = "module"

\* len(wav_buffer.getvalue()): the 44-byte RIFF header and 2 bytes a frame
WavSize(frames) == 44 + 2 * Len(frames)

----------------------------------------------------------------------------
(* Inputs *)

MaxNoteLen == 1

MaxAudioFiles == 2

NoteAlphabet == {"A", "#", "Z", "9"}

\* every string over the alphabet of at most MaxNoteLen characters
ShortNotes == UNION {[1..n -> NoteAlphabet] : n \in 0..MaxNoteLen}

\* "Z9" (unknown name, octave 9) and "A#3" (a sharp below octave 4)
ExampleNotes == {<<"Z", "9">>, <<"A", "#", "3">>}

Notes == ShortNotes \cup ExampleNotes

Velocities == {Rat(4, 5), FromInt(4)}

\* seconds: 4 samples, 1 sample (1.764 before int()), none, and negative
\* (-0.441 and -44100 before int())
Durations ==
    {Rat(1, 10000), Rat(4, 100000), Zero, Rat(-1, 100000), <<-1, 1>>}

Requests == [note : Notes, velocity : Velocities, duration : Durations]

\* seconds: 220 samples (the default), none, 2 samples, -2 samples
Attacks == {Rat(5, 1000), Zero, Rat(5, 100000), Rat(-5, 100000)}

\* seconds: 4410 samples (the default), none, 2 samples
Decays == {Rat(1, 10), Zero, Rat(5, 100000)}

\* seconds: 44100 samples (the default), none, 1 sample, 4 samples
Releases == {One, Zero, Rat(3, 100000), Rat(1, 10000)}

EnvelopeConfigs ==
    {[DefaultConfig EXCEPT !.attack = a, !.decay = d, !.release = r] :
        a \in Attacks, d \in Decays, r \in Releases}

ShortConfig ==
    [DefaultConfig EXCEPT !.attack = Rat(5, 100000), !.decay = Zero,
                          !.release = Rat(3, 100000)]

VoiceConfigs ==
    {[ShortConfig EXCEPT !.waveform = "square", !.volume = One],
     [ShortConfig EXCEPT !.waveform = "sawtooth"],
     [ShortConfig EXCEPT !.waveform = "triangle", !.volume = One],
     [ShortConfig EXCEPT !.waveform = "organ"]}

\* the bodies POST /config is called with
PostedConfigs == EnvelopeConfigs \cup VoiceConfigs

----------------------------------------------------------------------------
(* State *)

VARIABLES
    config,        \* synthesizer.config
    audio_files,   \* len(file_manager.audio_files)
    ws_open,       \* the websocket is accepted and not closed
    caller,        \* the handler inside synthesizer.synthesize_note: "none", "http", "ws"
    pc,            \* the statement of synthesize_note to run next
    note,          \* its arguments
    velocity,
    duration,
    frequency,     \* its locals
    wave,
    envelope,      \* the envelope array of apply_adsr_envelope
    wave_int,
    exc,           \* the exception it raised, "none" if none
    response,      \* the answer to the last request, NoResponse while it is handled
    last_posted,   \* history: the config of the last completed update_config
    cfg_generate,  \* history: the config object read for generate_waveform
    cfg_envelope   \* history: the config object read by apply_adsr_envelope

vars ==
    <<config, audio_files, ws_open, caller, pc, note, velocity, duration,
      frequency, wave, envelope, wave_int, exc, response, last_posted,
      cfg_generate, cfg_envelope>>

args == <<note, velocity, duration>>

locals == <<frequency, wave, envelope, wave_int>>

history == <<cfg_generate, cfg_envelope>>

service == <<config, audio_files, ws_open, response, last_posted>>

\* a config-shaped value for "not read yet"
NoConfig ==
    [attack |-> Zero, decay |-> Zero, sustain |-> Zero, release |-> Zero,
     waveform |-> "", volume |-> Zero]

NoResponse ==
    [kind |-> "none", status |-> 0, config |-> NoConfig, note |-> <<>>,
     size |-> 0, detail |-> "none"]

\* synthesizer = AudioSynthesizer(); file_manager = FileManager()
Init ==
    /\ config = DefaultConfig
    /\ audio_files = 0
    /\ ws_open = FALSE
    /\ caller = "none"
    /\ pc = "idle"
    /\ note = <<>>
    /\ velocity = Zero
    /\ duration = Zero
    /\ frequency = Zero
    /\ wave = <<>>
    /\ envelope = <<>>
    /\ wave_int = <<>>
    /\ exc = "none"
    /\ response = NoResponse
    /\ last_posted = DefaultConfig
    /\ cfg_generate = NoConfig
    /\ cfg_envelope = NoConfig

----------------------------------------------------------------------------
(* The event loop *)

\* a handler started at any time instead, as on preemptive threads
LoopAlwaysFree == TRUE

\* The handlers are coroutines on one asyncio event loop, and none awaits
\* between entering synthesize_note and its return or raise: a handler
\* starts only while no other handler is inside that call.
LoopIdle == caller = "none"

\* an update that keeps the waveform already set instead
UpdatedConfigMerged(old, new) == [new EXCEPT !.waveform = old.waveform]

\* AudioSynthesizer.update_config: self.config = config
UpdatedConfig(old, new) == new

\* POST /config
UpdateConfig(c) ==
    /\ LoopIdle
    /\ config' = UpdatedConfig(config, c)
    /\ last_posted' = c
    /\ response' = [NoResponse EXCEPT !.kind = "update_config", !.status = 200,
                                      !.config = c]
    /\ UNCHANGED <<audio_files, ws_open, caller, pc, args, locals, exc, history>>

\* GET /config
GetConfig ==
    /\ LoopIdle
    /\ response' = [NoResponse EXCEPT !.kind = "get_config", !.status = 200,
                                      !.config = config]
    /\ UNCHANGED <<config, audio_files, ws_open, caller, pc, args, locals, exc,
                   last_posted, history>>

\* the call synthesizer.synthesize_note(note, velocity, duration) is entered
EnterSynthesize(who, r) ==
    /\ caller' = who
    /\ pc' = "parse"
    /\ note' = r.note
    /\ velocity' = r.velocity
    /\ duration' = r.duration
    /\ exc' = "none"
    /\ response' = NoResponse
    /\ UNCHANGED <<locals, history>>

\* POST /synthesize: the handler up to the call
HttpSynthesize(r) ==
    /\ LoopIdle
    /\ audio_files < MaxAudioFiles
    /\ EnterSynthesize("http", r)
    /\ UNCHANGED <<config, audio_files, ws_open, last_posted>>

\* /ws/realtime: await websocket.accept()
WsAccept ==
    /\ LoopIdle
    /\ ~ws_open
    /\ ws_open' = TRUE
    /\ UNCHANGED <<config, audio_files, caller, pc, args, locals, exc, response,
                   last_posted, history>>

\* /ws/realtime: a {"type": "note", "data": ...} message is received
WsNote(r) ==
    /\ LoopIdle
    /\ ws_open
    /\ EnterSynthesize("ws", r)
    /\ UNCHANGED <<config, audio_files, ws_open, last_posted>>

----------------------------------------------------------------------------
(* synthesize_note, statement by statement *)

Raise(e) ==
    /\ exc' = e
    /\ pc' = "raised"

\* note_name, octave, base_freq, frequency
SynthParse ==
    /\ pc = "parse"
    /\ IF LastCharRaises(note)
       THEN Raise("IndexError") /\ UNCHANGED frequency
       ELSE /\ frequency' = Frequency(note)
            /\ pc' = "generate"
            /\ UNCHANGED exc
    /\ UNCHANGED <<service, caller, args, wave, envelope, wave_int, history>>

\* wave = self.generate_waveform(frequency, duration, self.config.waveform)
SynthGenerate ==
    /\ pc = "generate"
    /\ cfg_generate' = config
    /\ LET g == generate_waveform(frequency, duration, config.waveform)
       IN  IF g.exc # "none"
           THEN Raise(g.exc) /\ UNCHANGED wave
           ELSE /\ wave' = g.wave
                /\ pc' = "envelope"
                /\ UNCHANGED exc
    /\ UNCHANGED <<service, caller, args, frequency, envelope, wave_int,
                   cfg_envelope>>

\* wave = self.apply_adsr_envelope(wave, duration)
SynthEnvelope ==
    /\ pc = "envelope"
    /\ cfg_envelope' = config
    /\ IF EnvelopeRaises(Len(wave), config)
       THEN Raise("ValueError") /\ UNCHANGED <<wave, envelope>>
       ELSE /\ envelope' = Envelope(Len(wave), config)
            /\ wave' = apply_adsr_envelope(wave, envelope', config.volume)
            /\ pc' = "velocity"
            /\ UNCHANGED exc
    /\ UNCHANGED <<service, caller, args, frequency, wave_int, cfg_generate>>

\* wave = wave * velocity
SynthVelocity ==
    /\ pc = "velocity"
    /\ wave' = ApplyVelocity(wave, velocity)
    /\ pc' = "quantize"
    /\ UNCHANGED <<service, caller, args, frequency, envelope, wave_int, exc,
                   history>>

\* wave_int = np.int16(wave * 32767)
SynthQuantize ==
    /\ pc = "quantize"
    /\ \E mode \in CastModes : wave_int' = Quantize(wave, mode)
    /\ pc' = "encode"
    /\ UNCHANGED <<service, caller, args, frequency, wave, envelope, exc,
                   history>>

\* with wave.open(wav_buffer, 'wb') as wav_file: ...; return
SynthEncode ==
    /\ pc = "encode"
    /\ IF HasOpen(WaveNameAtEncode)
       THEN pc' = "returned" /\ UNCHANGED exc
       ELSE Raise("AttributeError")
    /\ UNCHANGED <<service, caller, args, locals, history>>

\* the frame of synthesize_note is gone
Leave ==
    /\ caller' = "none"
    /\ pc' = "idle"
    /\ note' = <<>>
    /\ velocity' = Zero
    /\ duration' = Zero
    /\ frequency' = Zero
    /\ wave' = <<>>
    /\ envelope' = <<>>
    /\ wave_int' = <<>>
    /\ exc' = "none"
    /\ cfg_generate' = NoConfig
    /\ cfg_envelope' = NoConfig

\* POST /synthesize after the call: store the file and answer, or
\* except Exception: HTTPException(500, str(e))
HttpRespond ==
    /\ caller = "http"
    /\ pc \in {"returned", "raised"}
    /\ IF pc = "returned"
       THEN /\ audio_files' = audio_files + 1
            /\ response' = [NoResponse EXCEPT !.kind = "synthesize", !.status = 200,
                                              !.note = note, !.size = WavSize(wave_int)]
       ELSE /\ response' = [NoResponse EXCEPT !.kind = "synthesize", !.status = 500,
                                              !.detail = exc]
            /\ UNCHANGED audio_files
    /\ Leave
    /\ UNCHANGED <<config, ws_open, last_posted>>

\* /ws/realtime after the call: send the answer and go on, or
\* except Exception: print; finally: close
WsRespond ==
    /\ caller = "ws"
    /\ pc \in {"returned", "raised"}
    /\ IF pc = "returned"
       THEN /\ response' = [NoResponse EXCEPT !.kind = "audio", !.status = 200,
                                              !.note = note, !.size = WavSize(wave_int)]
            /\ UNCHANGED ws_open
       ELSE /\ ws_open' = FALSE
            /\ response' = [NoResponse EXCEPT !.kind = "ws_closed", !.detail = exc]
    /\ Leave
    /\ UNCHANGED <<config, audio_files, last_posted>>

Next ==
    \/ \E c \in PostedConfigs : UpdateConfig(c)
    \/ GetConfig
    \/ \E r \in Requests : HttpSynthesize(r)
    \/ WsAccept
    \/ \E r \in Requests : WsNote(r)
    \/ SynthParse
    \/ SynthGenerate
    \/ SynthEnvelope
    \/ SynthVelocity
    \/ SynthQuantize
    \/ SynthEncode
    \/ HttpRespond
    \/ WsRespond

Spec == Init /\ [][Next]_vars

----------------------------------------------------------------------------
(* The service at full scale: requests of one second, half a second and a
   millisecond under the default config *)

ScenarioNotes ==
    {<<"A", "4">>, <<"Z", "9">>, <<"C", "#", "4">>, <<"G", "#", "2">>,
     <<"B">>, <<>>}

\* synthesize("A4", 1.0, 1.0) and synthesize("Z9", 0.8, 0.5)
LongRequests ==
    {[note |-> <<"A", "4">>, velocity |-> One, duration |-> One],
     [note |-> <<"Z", "9">>, velocity |-> Rat(4, 5), duration |-> Rat(1, 2)]}

\* a millisecond (44 samples) and no time at all
BriefRequests ==
    [note : ScenarioNotes, velocity : {Rat(4, 5), One},
     duration : {Rat(1, 1000), Zero}]

\* POST /synthesize and the config endpoints
ScenarioNext ==
    \/ UpdateConfig(DefaultConfig)
    \/ GetConfig
    \/ \E r \in LongRequests \cup BriefRequests : HttpSynthesize(r)
    \/ SynthParse
    \/ SynthGenerate
    \/ SynthEnvelope
    \/ SynthVelocity
    \/ SynthQuantize
    \/ SynthEncode
    \/ HttpRespond

ScenarioSpec == Init /\ [][ScenarioNext]_vars

----------------------------------------------------------------------------
(* Positions of a call *)

\* generate_waveform has just returned or raised
AfterGenerate ==
    /\ cfg_generate # NoConfig
    /\ cfg_envelope = NoConfig
    /\ pc \in {"envelope", "raised"}

\* apply_adsr_envelope has just returned or raised
AfterEnvelope ==
    /\ cfg_envelope # NoConfig
    /\ \/ pc = "velocity"
       \/ pc = "raised" /\ exc = "ValueError"

\* apply_adsr_envelope has returned: the envelope array is the call's
EnvelopeKept ==
    \/ pc \in {"velocity", "quantize", "encode", "returned"}
    \/ pc = "raised" /\ exc = "AttributeError"

\* np.int16(...) has returned: wave holds the scaled samples, wave_int the PCM
QuantizeDone ==
    \/ pc \in {"encode", "returned"}
    \/ pc = "raised" /\ exc = "AttributeError"

----------------------------------------------------------------------------
(* Claims *)

\* C1: synthesize_note never raises: for every note, velocity, duration and
\* config the call returns an encoded buffer and does not end in an error.
C1_NeverRaises == pc # "raised" /\ exc = "none"

\* C2: envelope shaping is total: for every buffer length and every segment
\* count apply_adsr_envelope returns a buffer of exactly the input's length
\* and does not fail.
C2_EnvelopeTotal ==
    AfterEnvelope =>
        /\ pc = "velocity"
        /\ Len(envelope) = NumSamples(duration)
        /\ Len(wave) = NumSamples(duration)

\* C3: quantization clamps: every scaled sample s becomes round(s * 32767)
\* clamped to [-32768, 32767], never wrapped and never of the opposite sign.
C3_QuantizeClamps ==
    QuantizeDone =>
        \A k \in 1..Len(wave) :
            wave_int[k] = Saturate16(RoundScaled(wave[k], PCM_SCALE))

\* C4: frequency resolution completes for every note string, and a name that
\* is not in the table (the empty string included) resolves to
\* 440 * 2^(octave - 4), the octave being the trailing digit or 4.
C4_MalformedDegrades ==
    /\ ~(pc = "raised" /\ exc = "IndexError")
    /\ (pc = "generate" /\ NoteName(note) \notin KnownNames) =>
           frequency = Rat(440 * Pow2(Octave(note)), 16)

\* C5: for every duration <= 0 generate_waveform returns an empty buffer and
\* does not raise.
C5_NonPositiveDurationEmpty ==
    (AfterGenerate /\ RLeq(duration, Zero)) => (pc = "envelope" /\ Len(wave) = 0)

\* C6: with the default config and duration 1.0 the buffer has 44100 samples
\* and the gain of indices [0, 220) is the attack ramp from 0 towards 1.
C6_AttackRampFirst ==
    (EnvelopeKept /\ cfg_envelope = DefaultConfig /\ duration = One) =>
        /\ Len(envelope) = 44100
        /\ \A i \in 0..219 : envelope[i + 1] = LinspaceAt(Zero, One, 220, i)

C8_LastWriterWins ==
    /\ config = last_posted
    /\ response.kind = "get_config" => response.config = last_posted
    /\ cfg_generate # NoConfig => cfg_generate = last_posted
    /\ cfg_envelope # NoConfig => cfg_envelope = last_posted

\* C8 witness: a call reads a config that an update wrote over the default
C8_Witness ==
    /\ pc = "velocity"
    /\ cfg_envelope = last_posted
    /\ last_posted.waveform # DefaultConfig.waveform
    /\ last_posted.release # DefaultConfig.release

\* C9: a synthesize_note call takes its waveform and its envelope and volume
\* from one and the same config value, and the shared config is still that
\* value while the call runs: the call does not modify it.
C9_OneConfigPerCall ==
    /\ (cfg_generate # NoConfig /\ cfg_envelope # NoConfig) =>
           cfg_generate = cfg_envelope
    /\ cfg_generate # NoConfig => config = cfg_generate
    /\ caller = "none" => cfg_generate = NoConfig /\ cfg_envelope = NoConfig

\* C9 witness: a websocket call under a posted config has read the config
\* for the waveform and for the envelope
C9_Witness ==
    /\ caller = "ws"
    /\ EnvelopeKept
    /\ cfg_generate # DefaultConfig
    /\ cfg_envelope # NoConfig

\* the gain the fixed write order leaves at index i: the last of attack,
\* decay (when it fits), sustain (when not empty) and release that covers i,
\* and 1 where none does
OrderedGain(i, total, a, d, r, sustain) ==
    IF r > 0 /\ i >= total - r
    THEN LinspaceAt(sustain, Zero, r, i - (total - r))
    ELSE IF a + d < total - r /\ a + d <= i /\ i < total - r
    THEN sustain
    ELSE IF d > 0 /\ a + d < total /\ a <= i /\ i < a + d
    THEN LinspaceAt(One, sustain, d, i - a)
    ELSE IF i < a
    THEN LinspaceAt(Zero, One, a, i)
    ELSE One

\* the segment counts of the call's config fit the claim's precondition
SegmentsFit(total, cfg) ==
    /\ 0 <= SegmentSamples(cfg.attack) /\ SegmentSamples(cfg.attack) <= total
    /\ 0 <= SegmentSamples(cfg.decay)
    /\ 0 <= SegmentSamples(cfg.release) /\ SegmentSamples(cfg.release) <= total

\* C10: for non-negative segment counts with attackN <= total and
\* releaseN <= total the gain at each index is that of the last segment
\* written over it in the order attack, decay, sustain, release, and 1.0
\* where no segment was written.
C10_LastSegmentWins ==
    /\ (AfterEnvelope /\ SegmentsFit(Len(wave), cfg_envelope)) => pc = "velocity"
    /\ (EnvelopeKept /\ SegmentsFit(Len(envelope), cfg_envelope)) =>
           \A i \in 0..(Len(envelope) - 1) :
               envelope[i + 1] =
                   OrderedGain(i, Len(envelope),
                               SegmentSamples(cfg_envelope.attack),
                               SegmentSamples(cfg_envelope.decay),
                               SegmentSamples(cfg_envelope.release),
                               cfg_envelope.sustain)

\* C10 witness: the decay did not fit, the sustain range is empty, and an
\* index between the attack and the release keeps the gain 1.0
C10_Witness ==
    /\ EnvelopeKept
    /\ SegmentsFit(Len(envelope), cfg_envelope)
    /\ LET total == Len(envelope)
           a == SegmentSamples(cfg_envelope.attack)
           d == SegmentSamples(cfg_envelope.decay)
           r == SegmentSamples(cfg_envelope.release)
       IN  /\ a > 0 /\ d > 0 /\ r > 0
           /\ a + d >= total
           /\ \E i \in a..(total - r - 1) : envelope[i + 1] = One

====
